---- MODULE Spec2Model ----
(***************************************************************************)
(* A model of the generic named-enum library: the process-wide directory   *)
(* setByTypeName, the per-type internalSet (nextID, exhaustedID,           *)
(* nameEnumMap), the internalEnum entries the sets own, and the Enum[T]    *)
(* handle with its JSON / text / SQL adapters.                             *)
(*                                                                         *)
(* Pointers are heap addresses (strings); NULL is the nil pointer.  Names  *)
(* and payloads are sequences of lexemes (see Lexemes below).              *)
(***************************************************************************)
EXTENDS Integers, Sequences, FiniteSets, TLC

VARIABLES
    setByTypeName,  \* the directory: type name -> address of its internalSet
    sets,           \* heap of internalSet objects: address -> record
    entries,        \* heap of internalEnum objects: address -> [name, id, T, set]
    handle,         \* one caller-side variable of type Enum[T]: [T, ptr]
    last,           \* the call that completed last, with its outcome
    newCount,       \* per host type: number of New calls that returned
    pc,             \* per thread: position inside New / Add
    loc,            \* per thread: the locals of the call in progress
    calls,          \* number of New calls the threads have started
    done,           \* outcomes of the New calls completed by the threads
    reserved,       \* per internalSet: the values atomic.AddInt64 handed out
    stored,         \* per type name: every set address ever stored in the directory
    reader          \* the thread that looks names up: position, locals, outcome

vars == <<setByTypeName, sets, entries, handle, last, newCount,
          pc, loc, calls, done, reserved, stored, reader>>

shared == <<setByTypeName, sets, entries>>

threadVars == <<pc, loc, calls, done, reserved, stored, reader>>

(***************************************************************************)
(* Bounds of the model.                                                    *)
(***************************************************************************)
\* Width, in bits, of the scaled-down host type Role (int in the tests).
IntBits == 3

\* Width, in bits, of the scaled-down signed host type f.E (int8 in the tests).
Int8Bits == 2

\* Width, in bits, of the scaled-down unsigned host type.
Uint8Bits == 1

\* New calls the threads of the concurrent specification may start in all.
MaxCalls == 3

\* Lookups the reader thread makes while the other threads register.
MaxReads == 1

\* New calls the threads may start in all while the reader thread runs.
MaxRaceCalls == 2

(***************************************************************************)
(* Host types.  Role is declared at package level; the two types named E   *)
(* are declared inside two different functions f and g of the same         *)
(* package, the way TestEnum_Overflow declares int8Enum.                   *)
(***************************************************************************)
HostTypes == {"Role", "f.E", "g.E"}

\* reflect.Type.PkgPath(): the import path of the declaring package.
PkgPath(T) == "enum"

\* reflect.Type.Name(): the type's name within its package, without the
\* function scope a local type is declared in.
TypeName(T) == IF T = "Role" THEN "Role" ELSE "E"

\* Is the underlying integer type of T signed?
Signed(T) == T # "g.E"

\* Width in bits of the underlying integer type of T.
Bits(T) == CASE T = "Role" -> IntBits
             [] T = "f.E"  -> Int8Bits
             [] T = "g.E"  -> Uint8Bits

\* 2^n
RECURSIVE Pow2(_)
Pow2(n) == IF n = 0 THEN 1 ELSE 2 * Pow2(n - 1)

\* K: how many non-negative values the underlying integer type of T holds.
Capacity(T) == IF Signed(T) THEN Pow2(Bits(T) - 1) ELSE Pow2(Bits(T))

\* The conversion T(v) of an int64 v: truncation to Bits(T) bits, read as
\* two's complement when T is signed.
ConvT(T, v) ==
    LET m == Pow2(Bits(T))
        r == v % m
    IN  IF Signed(T) /\ r >= m \div 2 THEN r - m ELSE r

NULL == "nil"

(***************************************************************************)
(* Lexemes.  A name is a sequence of lexemes:      "G" an ASCII letter,   *)
(* "dq" the double quote, "xFF" the byte 0xFF (not valid UTF-8), "uFFFD"   *)
(* the encoding of U+FFFD.  JSON text also uses "bs" (backslash), "esc"    *)
(* (the six bytes of the escape for U+FFFD), "null" and "1" (literals).    *)
(***************************************************************************)
EmptyName == <<>>

Names == {<<"G">>, <<"xFF">>, <<"uFFFD">>}

NameArgs == Names \cup {EmptyName}

Threads == {"t1", "t2"}

MainThread == "main"

(***************************************************************************)
(* Panic and error messages of the code.                                   *)
(***************************************************************************)
NoPanic == ""
NoError == ""
PanicEmptyName == "enum name cannot be empty"
PanicDuplicate == "duplicate name in enum set"
PanicOverflow == "too many enums in enum set"
PanicTypeAssertion == "interface conversion"
PanicNotInitialized == "enum not initialized"
ErrNoSet == "no enum set associated with type"
ErrNameNotFound == "name could not be found in enum set for type"
ErrNotAString == "source should be a string"
ErrNotStringOrBytes == "value is not a string or byte slice"
ErrNotInitialized == "enum not initialized"

(***************************************************************************)
(* The directory and the registry (internalSet).                           *)
(***************************************************************************)
\* getTypeName[T](): the directory key of host type T.
getTypeName(T) == PkgPath(T) \o "." \o TypeName(T)

\* newInternalSet[T](): an empty set.  T is the type argument the object
\* was instantiated with (its dynamic type is *internalSet[T]).
newInternalSet(T) ==
    [T |-> T, nameEnumMap |-> <<>>, nextID |-> 0, exhaustedID |-> FALSE]

\* The address of the internalSet[T] that thread thr allocates.
SetAddr(T, thr) == "set[" \o T \o "]@" \o thr

\* An allocator that hands out the same address again.
EntryAddrReused(ents, s) == s \o "#0"

\* The address of the next internalEnum that Add allocates for set s.
EntryAddr(ents, s) ==
    s \o "#" \o ToString(Cardinality({a \in DOMAIN ents : ents[a].set = s}))

\* A conversion of the stored set that does not look at its dynamic type.
TypeAssertionUnchecked(sts, as, T) == TRUE

\* The type assertion as.(*internalSet[T]) on the set stored at address as.
TypeAssertionHolds(sts, as, T) == sts[as].T = T

\* atomic.LoadInt64 in place of atomic.AddInt64: the counter is read, not
\* advanced.
LoadInt64(v, delta) == v

\* atomic.AddInt64(&v, delta): the new value.
AddInt64(v, delta) == v + delta

\* WrappedAround comparing the int64 values, the conversions to T forgotten.
WrappedAroundNoConversion(T, newID, id) == newID > id

\* Add's test that this call took the last ID of T: T(newID) > T(id).
WrappedAround(T, newID, id) == ConvT(T, newID) > ConvT(T, id)

\* An Add without its first check.
ExhaustedCheckNever(set) == FALSE

\* Add's first check: the set ran out of IDs.
ExhaustedCheck(set) == set.exhaustedID

\* Add's second check: the name is already in the set.
DuplicateCheck(set, name) == name \in DOMAIN set.nameEnumMap

\* AddPanic without the check of the name.
AddPanicNoDuplicateCheck(set, name) ==
    IF ExhaustedCheck(set) THEN PanicOverflow ELSE NoPanic

\* The panic, if any, that Add's two checks raise, in the code's order.
AddPanic(set, name) ==
    IF ExhaustedCheck(set) THEN PanicOverflow
    ELSE IF DuplicateCheck(set, name) THEN PanicDuplicate
    ELSE NoPanic

\* Add reserves an ID: the set after atomic.AddInt64(&s.nextID, 1).
ReserveID(set) == [set EXCEPT !.nextID = AddInt64(@, 1)]

\* Add marks the set exhausted when the reserved ID is the last one.
MarkExhausted(set, T, id) ==
    IF WrappedAround(T, id - 1, id) THEN [set EXCEPT !.exhaustedID = TRUE] ELSE set

\* MakeEntry with the reserved value itself as the ID (the "- 1" forgotten).
MakeEntryOffByOne(T, s, name, id) ==
    [name |-> name, id |-> ConvT(T, id), T |-> T, set |-> s]

\* The internalEnum[T] Add builds for the reserved counter value id; set is
\* the set that allocated it.
MakeEntry(T, s, name, id) ==
    [name |-> name, id |-> ConvT(T, id - 1), T |-> T, set |-> s]

\* An Add that does not store the entry.
PutEntryDropped(set, name, e) == set

\* s.nameEnumMap[name] = e
PutEntry(set, name, e) == [set EXCEPT !.nameEnumMap = (name :> e) @@ @]

\* An Add that reserves the ID before it tests the name.
AddReserveFirst(sts, ents, T, s, name) ==
    IF ExhaustedCheck(sts[s])
    THEN [sets |-> sts, entries |-> ents, panic |-> PanicOverflow, ret |-> NULL]
    ELSE LET set1 == ReserveID(sts[s])
             id   == set1.nextID
             set2 == MarkExhausted(set1, T, id)
             e    == EntryAddr(ents, s)
         IN  IF DuplicateCheck(sts[s], name)
             THEN [sets |-> [sts EXCEPT ![s] = set2], entries |-> ents,
                   panic |-> PanicDuplicate, ret |-> NULL]
             ELSE [sets    |-> [sts EXCEPT ![s] = PutEntry(set2, name, e)],
                   entries |-> (e :> MakeEntry(T, s, name, id)) @@ ents,
                   panic   |-> NoPanic,
                   ret     |-> e]

\* internalSet.Add(name) run to completion on the set at address s whose
\* static type is internalSet[T].
Add(sts, ents, T, s, name) ==
    LET p == AddPanic(sts[s], name) IN
    IF p # NoPanic
    THEN [sets |-> sts, entries |-> ents, panic |-> p, ret |-> NULL]
    ELSE LET set1 == ReserveID(sts[s])
             id   == set1.nextID
             set2 == MarkExhausted(set1, T, id)
             e    == EntryAddr(ents, s)
         IN  [sets    |-> [sts EXCEPT ![s] = PutEntry(set2, name, e)],
              entries |-> (e :> MakeEntry(T, s, name, id)) @@ ents,
              panic   |-> NoPanic,
              ret     |-> e]

\* A lookup that ignores the name and returns any entry of the set.
GetAny(set, name) ==
    IF DOMAIN set.nameEnumMap = {} THEN NULL
    ELSE set.nameEnumMap[CHOOSE n \in DOMAIN set.nameEnumMap : TRUE]

\* internalSet.Get(name): the entry, or nil.
Get(set, name) ==
    IF name \in DOMAIN set.nameEnumMap THEN set.nameEnumMap[name] ELSE NULL

\* getOrCreateSetForType[T]() run to completion by thread thr.
getOrCreateSetForType(dir, sts, T, thr) ==
    LET typeName == getTypeName(T) IN
    IF typeName \notin DOMAIN dir
    THEN LET s == SetAddr(T, thr)
         IN  [dir |-> (typeName :> s) @@ dir,
              sets |-> (s :> newInternalSet(T)) @@ sts,
              panic |-> NoPanic, s |-> s]
    ELSE IF TypeAssertionHolds(sts, dir[typeName], T)
         THEN [dir |-> dir, sets |-> sts, panic |-> NoPanic, s |-> dir[typeName]]
         ELSE [dir |-> dir, sets |-> sts, panic |-> PanicTypeAssertion, s |-> NULL]

\* A New that does not test the name.
NewResultNoNameCheck(dir, sts, ents, T, name, thr) ==
    LET g == getOrCreateSetForType(dir, sts, T, thr) IN
    IF g.panic # NoPanic
    THEN [dir |-> g.dir, sets |-> g.sets, entries |-> ents,
          panic |-> g.panic, ret |-> NULL]
    ELSE LET a == Add(g.sets, ents, T, g.s, name)
         IN  [dir |-> g.dir, sets |-> a.sets, entries |-> a.entries,
              panic |-> a.panic, ret |-> a.ret]

\* New[T](name) run to completion by thread thr.
NewResult(dir, sts, ents, T, name, thr) ==
    IF name = EmptyName
    THEN [dir |-> dir, sets |-> sts, entries |-> ents,
          panic |-> PanicEmptyName, ret |-> NULL]
    ELSE LET g == getOrCreateSetForType(dir, sts, T, thr) IN
         IF g.panic # NoPanic
         THEN [dir |-> g.dir, sets |-> g.sets, entries |-> ents,
               panic |-> g.panic, ret |-> NULL]
         ELSE LET a == Add(g.sets, ents, T, g.s, name)
              IN  [dir |-> g.dir, sets |-> a.sets, entries |-> a.entries,
                   panic |-> a.panic, ret |-> a.ret]

(***************************************************************************)
(* encoding/json on strings, as the adapters use it.                       *)
(***************************************************************************)
\* json.Marshal writes one lexeme of a string: the quote and the backslash
\* are escaped, a byte that is not valid UTF-8 is written as the escape of
\* U+FFFD.
EscapeLexeme(c) ==
    CASE c = "dq"  -> <<"bs", "dq">>
      [] c = "bs"  -> <<"bs", "bs">>
      [] c = "xFF" -> <<"esc">>
      [] OTHER     -> <<c>>

RECURSIVE EscapeAll(_)
EscapeAll(str) ==
    IF str = <<>> THEN <<>> ELSE EscapeLexeme(Head(str)) \o EscapeAll(Tail(str))

\* json.Marshal(name) for a string: the quoted, escaped text.
jsonMarshalString(str) == <<"dq">> \o EscapeAll(str) \o <<"dq">>

\* The text between the quotes of a JSON string, unquoted: [ok, str].
RECURSIVE Unquote(_)
Unquote(t) ==
    IF t = <<>> THEN [ok |-> TRUE, str |-> <<>>]
    ELSE IF Head(t) = "dq" THEN [ok |-> FALSE, str |-> <<>>]
    ELSE IF Head(t) = "bs"
         THEN IF Len(t) >= 2 /\ t[2] \in {"dq", "bs"}
              THEN LET r == Unquote(SubSeq(t, 3, Len(t)))
                   IN  [ok |-> r.ok, str |-> <<t[2]>> \o r.str]
              ELSE [ok |-> FALSE, str |-> <<>>]
    ELSE LET r == Unquote(Tail(t))
             c == IF Head(t) \in {"xFF", "esc"} THEN "uFFFD" ELSE Head(t)
         IN  [ok |-> r.ok, str |-> <<c>> \o r.str]

\* json.Unmarshal(data, &name) with name a string variable holding "":
\* null leaves the variable alone, a JSON string is unquoted into it, and
\* everything else is an error.
jsonUnmarshalString(data) ==
    IF data = <<"null">> THEN [ok |-> TRUE, str |-> EmptyName]
    ELSE IF Len(data) >= 2 /\ Head(data) = "dq" /\ data[Len(data)] = "dq"
         THEN Unquote(SubSeq(data, 2, Len(data) - 1))
         ELSE [ok |-> FALSE, str |-> EmptyName]

(***************************************************************************)
(* The handle Enum[T] (internalEnumWrapper[T]): ptr is its internalEnum    *)
(* pointer.                                                                *)
(***************************************************************************)
\* internalEnumWrapper.Valid()
Valid(ptr) == ptr # NULL

\* getInternalEnumForName[T](name): [e, err, panic].
getInternalEnumForName(dir, sts, T, name) ==
    LET typeName == getTypeName(T) IN
    IF typeName \notin DOMAIN dir
    THEN [e |-> NULL, err |-> ErrNoSet, panic |-> NoPanic]
    ELSE IF ~TypeAssertionHolds(sts, dir[typeName], T)
    THEN [e |-> NULL, err |-> NoError, panic |-> PanicTypeAssertion]
    ELSE LET e == Get(sts[dir[typeName]], name)
         IN  IF e = NULL
             THEN [e |-> NULL, err |-> ErrNameNotFound, panic |-> NoPanic]
             ELSE [e |-> e, err |-> NoError, panic |-> NoPanic]

\* e.internalEnum, err = getInternalEnumForName[T](name): the handle's
\* pointer after the assignment, with the error returned: [ptr, err, panic].
BindByName(dir, sts, T, ptr, name) ==
    LET r == getInternalEnumForName(dir, sts, T, name) IN
    IF r.panic # NoPanic
    THEN [ptr |-> ptr, err |-> NoError, panic |-> r.panic]
    ELSE [ptr |-> r.e, err |-> r.err, panic |-> NoPanic]

\* internalEnumWrapper.UnmarshalJSON(data) on a handle of type Enum[T].
UnmarshalJSON(dir, sts, T, ptr, data) ==
    LET d == jsonUnmarshalString(data) IN
    IF ~d.ok
    THEN [ptr |-> ptr, err |-> ErrNotAString, panic |-> NoPanic]
    ELSE BindByName(dir, sts, T, ptr, d.str)

\* internalEnumWrapper.UnmarshalText(text)
UnmarshalText(dir, sts, T, ptr, text) == BindByName(dir, sts, T, ptr, text)

\* A Scan that treats a nil value as the empty name.
ScanNilLooksUp(dir, sts, T, ptr, value) ==
    IF value.kind \notin {"nil", "string", "bytes"}
    THEN [ptr |-> ptr, err |-> ErrNotStringOrBytes, panic |-> NoPanic]
    ELSE BindByName(dir, sts, T, ptr, value.val)

\* internalEnumWrapper.Scan(value); value is [kind, val] with kind one of
\* "nil", "string", "bytes", "int64".
Scan(dir, sts, T, ptr, value) ==
    IF value.kind = "nil"
    THEN [ptr |-> ptr, err |-> NoError, panic |-> NoPanic]
    ELSE IF value.kind \notin {"string", "bytes"}
    THEN [ptr |-> ptr, err |-> ErrNotStringOrBytes, panic |-> NoPanic]
    ELSE BindByName(dir, sts, T, ptr, value.val)

\* A Name() without the Valid() test.
NameUnchecked(ents, ptr) ==
    [val |-> IF ptr = NULL THEN EmptyName ELSE ents[ptr].name, panic |-> NoPanic]

\* internalEnumWrapper.Name()
Name(ents, ptr) ==
    IF ~Valid(ptr) THEN [val |-> EmptyName, panic |-> PanicNotInitialized]
    ELSE [val |-> ents[ptr].name, panic |-> NoPanic]

\* internalEnumWrapper.ID()
ID(ents, ptr) ==
    IF ~Valid(ptr) THEN [val |-> 0, panic |-> PanicNotInitialized]
    ELSE [val |-> ents[ptr].id, panic |-> NoPanic]

\* internalEnumWrapper.String()
String(ents, ptr) ==
    IF ~Valid(ptr) THEN [val |-> EmptyName, panic |-> PanicNotInitialized]
    ELSE [val |-> ents[ptr].name, panic |-> NoPanic]

\* A MarshalJSON without the Valid() test, writing the empty name.
MarshalJSONUnchecked(ents, ptr) ==
    [data |-> jsonMarshalString(IF ptr = NULL THEN EmptyName ELSE ents[ptr].name),
     err |-> NoError]

\* internalEnumWrapper.MarshalJSON(): [data, err].
MarshalJSON(ents, ptr) ==
    IF ~Valid(ptr) THEN [data |-> <<>>, err |-> ErrNotInitialized]
    ELSE [data |-> jsonMarshalString(Name(ents, ptr).val), err |-> NoError]

\* A MarshalText that writes the numeric ID.
MarshalTextID(ents, ptr) ==
    IF ~Valid(ptr) THEN [data |-> <<>>, err |-> ErrNotInitialized]
    ELSE [data |-> <<ToString(ID(ents, ptr).val)>>, err |-> NoError]

\* internalEnumWrapper.MarshalText(): [data, err].
MarshalText(ents, ptr) ==
    IF ~Valid(ptr) THEN [data |-> <<>>, err |-> ErrNotInitialized]
    ELSE [data |-> Name(ents, ptr).val, err |-> NoError]

\* internalEnumWrapper.Value(): [data, err]; the driver.Value is a string.
Value(ents, ptr) ==
    IF ~Valid(ptr) THEN [data |-> <<>>, err |-> ErrNotInitialized]
    ELSE [data |-> Name(ents, ptr).val, err |-> NoError]

\* EnumByTypeAndName[T](name): [ptr, err, panic].
EnumByTypeAndName(dir, sts, T, name) ==
    LET r == getInternalEnumForName(dir, sts, T, name) IN
    [ptr |-> r.e, err |-> r.err, panic |-> r.panic]

\* An EnumsByType that returns no handle for a type without a set.
EnumsByTypeEntriesEmptyOnMissing(dir, sts, T) ==
    LET typeName == getTypeName(T) IN
    IF typeName \notin DOMAIN dir
    THEN [ptrs |-> {}, panic |-> NoPanic]
    ELSE IF ~TypeAssertionHolds(sts, dir[typeName], T)
    THEN [ptrs |-> {}, panic |-> PanicTypeAssertion]
    ELSE LET m == sts[dir[typeName]].nameEnumMap
         IN  [ptrs |-> {m[n] : n \in DOMAIN m}, panic |-> NoPanic]

\* The entries EnumsByType[T]() ranges over, or the panic of its type
\* assertion (on a missing key the asserted interface is nil).
EnumsByTypeEntries(dir, sts, T) ==
    LET typeName == getTypeName(T) IN
    IF typeName \notin DOMAIN dir
    THEN [ptrs |-> {}, panic |-> PanicTypeAssertion]
    ELSE IF ~TypeAssertionHolds(sts, dir[typeName], T)
    THEN [ptrs |-> {}, panic |-> PanicTypeAssertion]
    ELSE LET m == sts[dir[typeName]].nameEnumMap
         IN  [ptrs |-> {m[n] : n \in DOMAIN m}, panic |-> NoPanic]

\* Sequences over S of the length of S, repetitions allowed.
OrdersWithRepeats(S) == [1..Cardinality(S) -> S]

\* The orders in which a range over a map may visit the set S.
Orders(S) ==
    {q \in [1..Cardinality(S) -> S] : \A i, j \in DOMAIN q : i # j => q[i] # q[j]}

(***************************************************************************)
(* Inputs of the calls.                                                    *)
(***************************************************************************)
\* Payloads handed to UnmarshalJSON: the encoding of every name, null, a
\* number, a string holding the raw byte 0xFF, and an unterminated string.
JSONInputs ==
    {jsonMarshalString(n) : n \in NameArgs}
        \cup {<<"null">>, <<"1">>, <<"dq", "xFF", "dq">>, <<"dq", "G">>}

\* Values handed to Scan.
ScanInputs ==
    {[kind |-> "nil", val |-> <<>>], [kind |-> "int64", val |-> <<"1">>]}
        \cup {[kind |-> k, val |-> n] : k \in {"string", "bytes"}, n \in NameArgs}

(***************************************************************************)
(* State.                                                                  *)
(***************************************************************************)
\* The record of a completed call.
Call(op, T, kind, arg, pre, panic, err, ret, list) ==
    [op |-> op, T |-> T, kind |-> kind, arg |-> arg, pre |-> pre,
     panic |-> panic, err |-> err, ret |-> ret, list |-> list]

\* The locals of a thread that is not inside a call.
NoLocals == [T |-> "", name |-> EmptyName, s |-> NULL, id |-> 0]

\* The reader thread before its first lookup.  snap is the map as it was
\* when the read in progress began, raced tells that a write to that map
\* happened before the read ended, out is the outcome of the lookup.
NoRead ==
    [pc |-> "idle", n |-> 0, T |-> "", name |-> EmptyName, s |-> NULL,
     snap |-> <<>>, out |-> "", ret |-> NULL, raced |-> FALSE]

Init ==
    /\ setByTypeName = <<>>
    /\ sets = <<>>
    /\ entries = <<>>
    /\ handle = [T |-> "Role", ptr |-> NULL]
    /\ last = Call("none", "", "", <<>>, NULL, NoPanic, NoError, NULL, <<>>)
    /\ newCount = [T \in HostTypes |-> 0]
    /\ pc = [t \in Threads |-> "idle"]
    /\ loc = [t \in Threads |-> NoLocals]
    /\ calls = 0
    /\ done = {}
    /\ reserved = <<>>
    /\ stored = <<>>
    /\ reader = NoRead

(***************************************************************************)
(* The calls of a single-threaded program, each run to completion.         *)
(***************************************************************************)
\* New[T](name)
NewCall(T, name) ==
    LET r == NewResult(setByTypeName, sets, entries, T, name, MainThread) IN
    /\ setByTypeName' = r.dir
    /\ sets' = r.sets
    /\ entries' = r.entries
    /\ newCount' = IF r.panic = NoPanic THEN [newCount EXCEPT ![T] = @ + 1]
                   ELSE newCount
    /\ last' = Call("New", T, "", name, NULL, r.panic, NoError, r.ret, <<>>)
    /\ UNCHANGED <<handle, threadVars>>

\* EnumsByType[T](): the handles, in the order the range over the map
\* produced them.
EnumsByTypeCall(T) ==
    LET r == EnumsByTypeEntries(setByTypeName, sets, T) IN
    /\ \E q \in Orders(r.ptrs) :
          last' = Call("EnumsByType", T, "", <<>>, NULL, r.panic, NoError, NULL, q)
    /\ UNCHANGED <<shared, handle, newCount, threadVars>>

\* A lookup that creates the set of a type that has none.
EnumByTypeAndNameCallCreating(T, name) ==
    LET g == getOrCreateSetForType(setByTypeName, sets, T, MainThread)
        r == EnumByTypeAndName(g.dir, g.sets, T, name)
    IN  /\ setByTypeName' = g.dir
        /\ sets' = g.sets
        /\ last' = Call("EnumByTypeAndName", T, "", name, NULL, r.panic, r.err, r.ptr, <<>>)
        /\ UNCHANGED <<entries, handle, newCount, threadVars>>

\* EnumByTypeAndName[T](name)
EnumByTypeAndNameCall(T, name) ==
    LET r == EnumByTypeAndName(setByTypeName, sets, T, name) IN
    /\ last' = Call("EnumByTypeAndName", T, "", name, NULL, r.panic, r.err, r.ptr, <<>>)
    /\ UNCHANGED <<shared, handle, newCount, threadVars>>

\* var h Enum[T]: the caller declares a zero-value handle.
Declare(T) ==
    /\ handle' = [T |-> T, ptr |-> NULL]
    /\ last' = Call("Declare", T, "", <<>>, handle.ptr, NoPanic, NoError, NULL, <<>>)
    /\ UNCHANGED <<shared, newCount, threadVars>>

\* A deserialization into the caller's handle, with result r.
Deserialize(op, kind, arg, r) ==
    /\ handle' = [handle EXCEPT !.ptr = r.ptr]
    /\ last' = Call(op, handle.T, kind, arg, handle.ptr, r.panic, r.err, NULL, <<>>)
    /\ UNCHANGED <<shared, newCount, threadVars>>

\* h.UnmarshalJSON(data)
UnmarshalJSONCall(data) ==
    Deserialize("UnmarshalJSON", "", data,
                UnmarshalJSON(setByTypeName, sets, handle.T, handle.ptr, data))

\* h.UnmarshalText(text)
UnmarshalTextCall(text) ==
    Deserialize("UnmarshalText", "", text,
                UnmarshalText(setByTypeName, sets, handle.T, handle.ptr, text))

\* h.Scan(value)
ScanCall(value) ==
    Deserialize("Scan", value.kind, value.val,
                Scan(setByTypeName, sets, handle.T, handle.ptr, value))

Next ==
    \/ \E T \in HostTypes, name \in NameArgs : NewCall(T, name)
    \/ \E T \in HostTypes : EnumsByTypeCall(T)
    \/ \E T \in HostTypes, name \in NameArgs : EnumByTypeAndNameCall(T, name)
    \/ \E T \in HostTypes : Declare(T)
    \/ \E data \in JSONInputs : UnmarshalJSONCall(data)
    \/ \E text \in NameArgs : UnmarshalTextCall(text)
    \/ \E value \in ScanInputs : ScanCall(value)

Spec == Init /\ [][Next]_vars

(***************************************************************************)
(* New[T](name) called from several threads.  Nothing in the code locks,   *)
(* so every access to shared memory is a step of its own: the read of the  *)
(* directory, the store into it, the read of exhaustedID, the read of      *)
(* nameEnumMap, the atomic increment, the store of exhaustedID and the     *)
(* store into nameEnumMap.                                                 *)
(***************************************************************************)
\* The record of a New call a thread completed.
Outcome(T, name, panic, ret) == [T |-> T, name |-> name, panic |-> panic, ret |-> ret]

\* The call of thread t ends, by a panic or by returning ret.
Finish(t, panic, ret) ==
    /\ done' = done \cup {Outcome(loc[t].T, loc[t].name, panic, ret)}
    /\ pc' = [pc EXCEPT ![t] = "idle"]
    /\ loc' = [loc EXCEPT ![t] = NoLocals]

\* Thread t calls New[T](name): the check of the name.
Start(t, T, name) ==
    /\ pc[t] = "idle"
    /\ calls < MaxCalls
    /\ calls' = calls + 1
    /\ IF name = EmptyName
       THEN /\ done' = done \cup {Outcome(T, name, PanicEmptyName, NULL)}
            /\ UNCHANGED <<pc, loc>>
       ELSE /\ pc' = [pc EXCEPT ![t] = "lookup"]
            /\ loc' = [loc EXCEPT ![t] = [NoLocals EXCEPT !.T = T, !.name = name]]
            /\ UNCHANGED done
    /\ UNCHANGED <<shared, handle, last, reader, newCount, reserved, stored>>

\* getOrCreateSetForType: as, ok := setByTypeName[typeName], and the type
\* assertion when the key is there.
Lookup(t) ==
    /\ pc[t] = "lookup"
    /\ LET typeName == getTypeName(loc[t].T) IN
       IF typeName \notin DOMAIN setByTypeName
       THEN /\ pc' = [pc EXCEPT ![t] = "create"]
            /\ UNCHANGED <<loc, done>>
       ELSE IF TypeAssertionHolds(sets, setByTypeName[typeName], loc[t].T)
       THEN /\ pc' = [pc EXCEPT ![t] = "exhausted"]
            /\ loc' = [loc EXCEPT ![t].s = setByTypeName[typeName]]
            /\ UNCHANGED done
       ELSE Finish(t, PanicTypeAssertion, NULL)
    /\ UNCHANGED <<shared, handle, last, reader, newCount, calls, reserved, stored>>

\* getOrCreateSetForType: s = newInternalSet[T](); setByTypeName[typeName] = s
Create(t) ==
    /\ pc[t] = "create"
    /\ LET typeName == getTypeName(loc[t].T)
           s == SetAddr(loc[t].T, t)
       IN  /\ sets' = (s :> newInternalSet(loc[t].T)) @@ sets
           /\ setByTypeName' = (typeName :> s) @@ setByTypeName
           /\ stored' = (typeName :>
                            (IF typeName \in DOMAIN stored THEN stored[typeName] ELSE {})
                                \cup {s}) @@ stored
           /\ loc' = [loc EXCEPT ![t].s = s]
    /\ pc' = [pc EXCEPT ![t] = "exhausted"]
    /\ UNCHANGED <<entries, handle, last, reader, newCount, calls, done, reserved>>

\* Add: if s.exhaustedID { panic }
CheckExhausted(t) ==
    /\ pc[t] = "exhausted"
    /\ IF ExhaustedCheck(sets[loc[t].s])
       THEN Finish(t, PanicOverflow, NULL)
       ELSE /\ pc' = [pc EXCEPT ![t] = "duplicate"]
            /\ UNCHANGED <<loc, done>>
    /\ UNCHANGED <<shared, handle, last, reader, newCount, calls, reserved, stored>>

\* Add: if _, ok := s.nameEnumMap[name]; ok { panic }
CheckDuplicate(t) ==
    /\ pc[t] = "duplicate"
    /\ IF DuplicateCheck(sets[loc[t].s], loc[t].name)
       THEN Finish(t, PanicDuplicate, NULL)
       ELSE /\ pc' = [pc EXCEPT ![t] = "reserve"]
            /\ UNCHANGED <<loc, done>>
    /\ UNCHANGED <<shared, handle, last, reader, newCount, calls, reserved, stored>>

\* Add: id := atomic.AddInt64(&s.nextID, 1)
Reserve(t) ==
    /\ pc[t] = "reserve"
    /\ LET s == loc[t].s
           set1 == ReserveID(sets[s])
       IN  /\ sets' = [sets EXCEPT ![s] = set1]
           /\ loc' = [loc EXCEPT ![t].id = set1.nextID]
           /\ reserved' = (s :> (IF s \in DOMAIN reserved THEN reserved[s] ELSE <<>>)
                                    \o <<set1.nextID>>) @@ reserved
    /\ pc' = [pc EXCEPT ![t] = "mark"]
    /\ UNCHANGED <<setByTypeName, entries, handle, last, reader, newCount, calls, done, stored>>

\* Add: if T(newID) > T(id) { s.exhaustedID = true }
Mark(t) ==
    /\ pc[t] = "mark"
    /\ sets' = [sets EXCEPT ![loc[t].s] = MarkExhausted(@, loc[t].T, loc[t].id)]
    /\ pc' = [pc EXCEPT ![t] = "put"]
    /\ UNCHANGED <<setByTypeName, entries, handle, last, reader, newCount, loc, calls, done,
                   reserved, stored>>

\* Add: e := &internalEnum[T]{...}; s.nameEnumMap[name] = e; return e
Put(t) ==
    /\ pc[t] = "put"
    /\ LET s == loc[t].s
           e == EntryAddr(entries, s)
       IN  /\ entries' = (e :> MakeEntry(loc[t].T, s, loc[t].name, loc[t].id)) @@ entries
           /\ sets' = [sets EXCEPT ![s] = PutEntry(@, loc[t].name, e)]
           /\ Finish(t, NoPanic, e)
    /\ UNCHANGED <<setByTypeName, handle, last, reader, newCount, calls, reserved, stored>>

NextConc ==
    \/ \E t \in Threads, T \in HostTypes, name \in NameArgs : Start(t, T, name)
    \/ \E t \in Threads : Lookup(t)
    \/ \E t \in Threads : Create(t)
    \/ \E t \in Threads : CheckExhausted(t)
    \/ \E t \in Threads : CheckDuplicate(t)
    \/ \E t \in Threads : Reserve(t)
    \/ \E t \in Threads : Mark(t)
    \/ \E t \in Threads : Put(t)

SpecConc == Init /\ [][NextConc]_vars

(***************************************************************************)
(* A lookup by name (getInternalEnumForName, as EnumByTypeAndName and the  *)
(* deserializers call it) made by one more thread while the others         *)
(* register.  The code takes no lock, so nothing orders the reader's two   *)
(* map reads with the writers' map stores.  A map read takes time: it      *)
(* begins, and it ends in a later step.  A store into the same map between *)
(* the two overlaps the read; Go leaves the outcome open: the runtime may  *)
(* stop the program ("concurrent map read and map write"), or the read     *)
(* may see the map as it was before or after the store.                    *)
(***************************************************************************)
\* The reader's lookup ends with outcome out and entry ret.
ReadFinish(out, ret, raced) ==
    reader' = [NoRead EXCEPT !.n = reader.n, !.s = reader.s, !.out = out,
                             !.ret = ret, !.raced = raced]

\* What a read that began on the map snap may see when it ends on the map
\* now: one of the two maps, or the runtime's fatal error, when they differ.
ReadOutcomes(snap, now) ==
    IF snap = now
    THEN {[fatal |-> FALSE, map |-> now]}
    ELSE {[fatal |-> TRUE, map |-> now], [fatal |-> FALSE, map |-> snap],
          [fatal |-> FALSE, map |-> now]}

\* getInternalEnumForName[T](name): the read of setByTypeName begins.
ReadStart(T, name) ==
    /\ reader.pc = "idle"
    /\ reader.n < MaxReads
    /\ reader' = [NoRead EXCEPT !.pc = "dir", !.n = reader.n + 1, !.T = T,
                                !.name = name, !.snap = setByTypeName]
    /\ UNCHANGED <<shared, handle, last, newCount, pc, loc, calls, done,
                   reserved, stored>>

\* anySet, ok := setByTypeName[typeName] ends; the error on a missing key,
\* the type assertion, and the read of s.nameEnumMap in Get begins.
ReadDir ==
    /\ reader.pc = "dir"
    /\ LET raced == reader.snap # setByTypeName
           typeName == getTypeName(reader.T)
       IN  \E o \in ReadOutcomes(reader.snap, setByTypeName) :
              IF o.fatal
              THEN ReadFinish("fatal", NULL, TRUE)
              ELSE IF typeName \notin DOMAIN o.map
              THEN ReadFinish("noset", NULL, raced)
              ELSE IF ~TypeAssertionHolds(sets, o.map[typeName], reader.T)
              THEN ReadFinish("panic", NULL, raced)
              ELSE reader' = [reader EXCEPT !.pc = "map", !.s = o.map[typeName],
                                            !.snap = sets[o.map[typeName]].nameEnumMap,
                                            !.raced = raced]
    /\ UNCHANGED <<shared, handle, last, newCount, pc, loc, calls, done,
                   reserved, stored>>

\* e, ok := s.nameEnumMap[name] in Get ends; nil gives the not-found error.
ReadMap ==
    /\ reader.pc = "map"
    /\ LET now == sets[reader.s].nameEnumMap
           raced == reader.raced \/ reader.snap # now
       IN  \E o \in ReadOutcomes(reader.snap, now) :
              IF o.fatal
              THEN ReadFinish("fatal", NULL, TRUE)
              ELSE LET e == Get([sets[reader.s] EXCEPT !.nameEnumMap = o.map],
                                reader.name)
                   IN  ReadFinish(IF e = NULL THEN "notfound" ELSE "found", e, raced)
    /\ UNCHANGED <<shared, handle, last, newCount, pc, loc, calls, done,
                   reserved, stored>>

\* Thread t calls New[T](name) while the reader thread runs.
RaceStart(t, T, name) ==
    /\ calls < MaxRaceCalls
    /\ Start(t, T, name)

NextRace ==
    \/ \E t \in Threads, T \in HostTypes, name \in NameArgs : RaceStart(t, T, name)
    \/ \E t \in Threads : Lookup(t)
    \/ \E t \in Threads : Create(t)
    \/ \E t \in Threads : CheckExhausted(t)
    \/ \E t \in Threads : CheckDuplicate(t)
    \/ \E t \in Threads : Reserve(t)
    \/ \E t \in Threads : Mark(t)
    \/ \E t \in Threads : Put(t)
    \/ \E T \in HostTypes, name \in Names : ReadStart(T, name)
    \/ ReadDir
    \/ ReadMap

SpecRace == Init /\ [][NextRace]_vars

(***************************************************************************)
(* Views of the state used by the properties.                              *)
(***************************************************************************)
\* The directory holds a Registry for T: a set stored under T's key whose
\* type argument is T.
HasRegistry(T) ==
    /\ getTypeName(T) \in DOMAIN setByTypeName
    /\ sets[setByTypeName[getTypeName(T)]].T = T

\* The Registry of T, or NULL.
RegistryAddr(T) == IF HasRegistry(T) THEN setByTypeName[getTypeName(T)] ELSE NULL

\* The entries map of T's Registry (empty when T has none).
RegistryOf(T) == IF HasRegistry(T) THEN sets[RegistryAddr(T)].nameEnumMap ELSE <<>>

IsRegistered(T, name) == name \in DOMAIN RegistryOf(T)

\* The identifiers registered for T.
RegisteredIDs(T) == {entries[RegistryOf(T)[n]].id : n \in DOMAIN RegistryOf(T)}

\* The ID range of T is used up.
IsExhausted(T) == HasRegistry(T) /\ sets[RegistryAddr(T)].exhaustedID

\* T's directory key is free or holds T's own Registry.
KeyFreeOrOwn(T) == getTypeName(T) \notin DOMAIN setByTypeName \/ HasRegistry(T)

Returned(c) == c.panic = NoPanic

(***************************************************************************)
(* Properties of sequential registration (specification Spec).             *)
(***************************************************************************)
\* C1: the k-th successful New[T] call (k from 0) returns a handle whose ID
\* is k and whose name is the one passed; after N successful registrations
\* the identifiers registered for T are exactly 0..N-1, one per name.
C1_SequentialIDs ==
    /\ \A T \in HostTypes :
          /\ RegisteredIDs(T) = 0 .. (newCount[T] - 1)
          /\ Cardinality(DOMAIN RegistryOf(T)) = newCount[T]
    /\ (last.op = "New" /\ Returned(last)) =>
          /\ entries[last.ret].id = newCount[last.T] - 1
          /\ entries[last.ret].name = last.arg
          /\ RegistryOf(last.T)[last.arg] = last.ret

\* C1 witness: the third New[Role] call has returned, with ID 2.
C1_Witness ==
    /\ last.op = "New" /\ Returned(last) /\ last.T = "Role"
    /\ newCount["Role"] = 3
    /\ entries[last.ret].id = 2

\* C2 as stated: New[T](name) with a name already registered for T panics
\* with the duplicate-name message and returns no handle, in every state
\* (the state in which T's range is exhausted included).
C2_Original ==
    [][(last'.op = "New" /\ IsRegistered(last'.T, last'.arg))
          => (last'.panic = PanicDuplicate /\ last'.ret = NULL)]_vars

\* C2 amended: New[T](name) with a name already registered for T never
\* returns a handle and leaves the directory, the Registry and its entries
\* unchanged; it panics with the duplicate-name message when T's range is
\* not exhausted and with the overflow message when it is.
C2_DuplicateNeverReturns ==
    [][(last'.op = "New" /\ IsRegistered(last'.T, last'.arg))
          => /\ last'.ret = NULL
             /\ last'.panic = IF IsExhausted(last'.T) THEN PanicOverflow
                               ELSE PanicDuplicate
             /\ UNCHANGED <<shared, newCount>>]_vars

\* C2 witness: New was called with a registered name on an exhausted type
\* and panicked with the overflow message.
C2_Witness ==
    /\ last.op = "New" /\ last.panic = PanicOverflow
    /\ IsRegistered(last.T, last.arg)
    /\ IsExhausted(last.T)

\* C3: while New is called for T alone (T's directory key is free or holds
\* T's Registry) with names not yet registered, the calls succeed with IDs
\* 0, 1, ..., K-1, where K = Capacity(T); once K calls have succeeded the
\* next call panics with the overflow message, returns no handle and stores
\* nothing.
C3_OverflowBoundary ==
    [][(/\ last'.op = "New"
        /\ last'.arg # EmptyName
        /\ KeyFreeOrOwn(last'.T)
        /\ ~IsRegistered(last'.T, last'.arg))
          => IF newCount[last'.T] < Capacity(last'.T)
             THEN /\ Returned(last')
                  /\ entries'[last'.ret].id = newCount[last'.T]
                  /\ newCount'[last'.T] = newCount[last'.T] + 1
             ELSE /\ newCount[last'.T] = Capacity(last'.T)
                  /\ last'.panic = PanicOverflow
                  /\ last'.ret = NULL
                  /\ UNCHANGED <<shared, newCount>>]_vars

\* C3 witness: after K successful registrations for T, New[T] with a new
\* name panicked with the overflow message.
C3_Witness ==
    /\ last.op = "New" /\ last.panic = PanicOverflow
    /\ last.arg # EmptyName
    /\ ~IsRegistered(last.T, last.arg)
    /\ newCount[last.T] = Capacity(last.T)
    /\ RegisteredIDs(last.T) = 0 .. (Capacity(last.T) - 1)

(***************************************************************************)
(* Properties of the adapters (specification Spec).                        *)
(***************************************************************************)
Deserializers == {"UnmarshalJSON", "UnmarshalText", "Scan"}

\* The handles New[T] has returned: the entries of T's Registry.
HandlesOf(T) == {RegistryOf(T)[n] : n \in DOMAIN RegistryOf(T)}

\* The last call deserialized what the matching serializer wrote for h.
FedSerializedFormOf(h) ==
    \/ last.op = "UnmarshalJSON" /\ last.arg = MarshalJSON(entries, h).data
    \/ last.op = "UnmarshalText" /\ last.arg = MarshalText(entries, h).data
    \/ /\ last.op = "Scan" /\ last.kind \in {"string", "bytes"}
       /\ last.arg = Value(entries, h).data

\* C4 as stated: for every handle h returned by New[T], deserializing what
\* MarshalJSON / MarshalText / Value wrote for h into a fresh zero-value
\* Enum[T] succeeds and leaves that handle equal to h.
C4_RoundTrip ==
    \A h \in HandlesOf(handle.T) :
        (last.op \in Deserializers /\ last.pre = NULL /\ FedSerializedFormOf(h))
            => (last.err = NoError /\ last.panic = NoPanic /\ handle.ptr = h)

\* The name holds no byte that json.Marshal replaces.
ValidUTF8(name) == \A i \in DOMAIN name : name[i] # "xFF"

\* What does hold of the round trip: it succeeds through the text and SQL
\* adapters for every handle, and through JSON for every handle whose name
\* is valid UTF-8.
RoundTripValidUTF8 ==
    \A h \in HandlesOf(handle.T) :
        (/\ last.op \in Deserializers /\ last.pre = NULL /\ FedSerializedFormOf(h)
         /\ (last.op = "UnmarshalJSON" => ValidUTF8(entries[h].name)))
            => (last.err = NoError /\ last.panic = NoPanic /\ handle.ptr = h)

\* The name the last deserialization looked up, when its input held one
\* (a JSON null holds none).
LookedUp ==
    CASE last.op = "UnmarshalJSON" ->
             [some |-> jsonUnmarshalString(last.arg).ok /\ last.arg # <<"null">>,
              name |-> jsonUnmarshalString(last.arg).str]
      [] last.op = "UnmarshalText" -> [some |-> TRUE, name |-> last.arg]
      [] last.op = "Scan" ->
             [some |-> last.kind \in {"string", "bytes"}, name |-> last.arg]
      [] OTHER -> [some |-> FALSE, name |-> EmptyName]

\* C5 as stated: deserializing a name that was never registered for T
\* returns an error and leaves the target handle as it was before the call
\* (Bound to the same entry, or still Uninitialized).
C5_UnknownNameLeavesHandle ==
    (/\ last.op \in Deserializers
     /\ LookedUp.some
     /\ KeyFreeOrOwn(last.T)
     /\ ~IsRegistered(last.T, LookedUp.name))
        => (last.err # NoError /\ handle.ptr = last.pre)

\* What does hold: such a call returns an error and leaves the handle
\* Uninitialized, whatever it was before.
UnknownNameClearsHandle ==
    (/\ last.op \in Deserializers
     /\ LookedUp.some
     /\ KeyFreeOrOwn(last.T)
     /\ ~IsRegistered(last.T, LookedUp.name))
        => (last.err # NoError /\ handle.ptr = NULL)

\* A Bound handle was handed an unregistered name.
UnknownNameIntoBoundHandle ==
    /\ last.op \in Deserializers /\ LookedUp.some
    /\ ~IsRegistered(last.T, LookedUp.name)
    /\ last.pre # NULL

(***************************************************************************)
(* Properties across host types (specification Spec).                      *)
(***************************************************************************)
\* The Registry object of A (counter, exhaustion flag and entries map) and
\* the entries A owns.
RegistryState(A) ==
    [set |-> IF HasRegistry(A) THEN <<sets[RegistryAddr(A)]>> ELSE <<>>,
     entries |-> {<<e, entries[e]>> : e \in {x \in DOMAIN entries : entries[x].T = A}}]

\* A step that completes New[B](name) with a non-empty name that another
\* type has registered and B has not, B's range not being exhausted.
NewOfNameSharedAcrossTypes(B, name) ==
    /\ last'.op = "New" /\ last'.T = B /\ last'.arg = name
    /\ name # EmptyName
    /\ \E A \in HostTypes \ {B} : IsRegistered(A, name)
    /\ ~IsRegistered(B, name)
    /\ ~IsExhausted(B)

\* C9 as stated: registering a name for B that a different host type has
\* registered succeeds; the ID depends only on the number of earlier
\* successful New[B] calls; the call leaves every other type's counter and
\* entries unchanged.
C9_PerTypeNamespaces ==
    [][\A B \in HostTypes, name \in Names :
          NewOfNameSharedAcrossTypes(B, name)
              => /\ Returned(last')
                 /\ entries'[last'.ret].id = newCount[B]
                 /\ \A A \in HostTypes \ {B} :
                       RegistryState(A)' = RegistryState(A)]_vars

\* What does hold: the same, for host types whose directory keys differ
\* from the keys of all other host types in use.
PerTypeNamespacesDistinctKeys ==
    [][\A B \in HostTypes, name \in Names :
          (/\ NewOfNameSharedAcrossTypes(B, name)
           /\ KeyFreeOrOwn(B))
              => /\ Returned(last')
                 /\ entries'[last'.ret].id = newCount[B]
                 /\ \A A \in HostTypes \ {B} :
                       RegistryState(A)' = RegistryState(A)]_vars

\* C10: cross-type isolation.  A handle that EnumByTypeAndName[B] returns,
\* every handle that EnumsByType[B] returns, and the entry a handle of type
\* Enum[B] is bound to, is an entry that New[B] created, also when another
\* type has registered the same name.
C10_CrossTypeIsolation ==
    /\ (last.op = "EnumByTypeAndName" /\ last.ret # NULL)
          => /\ entries[last.ret].T = last.T
             /\ last.ret \in HandlesOf(last.T)
    /\ last.op = "EnumsByType"
          => \A i \in DOMAIN last.list :
                /\ entries[last.list[i]].T = last.T
                /\ last.list[i] \in HandlesOf(last.T)
    /\ handle.ptr # NULL => entries[handle.ptr].T = handle.T
    /\ \A T \in HostTypes : \A h \in HandlesOf(T) : entries[h].T = T

\* C10 witness: a name is registered for Role and for f.E, and a lookup
\* scoped to f.E has returned f.E's entry for it.
C10_Witness ==
    /\ last.op = "EnumByTypeAndName" /\ last.T = "f.E" /\ last.ret # NULL
    /\ IsRegistered("Role", last.arg)
    /\ RegistryOf("Role")[last.arg] # last.ret
    /\ handle.T = "f.E" /\ handle.ptr = last.ret

(***************************************************************************)
(* Properties of concurrent registration (specification SpecConc).         *)
(***************************************************************************)
\* The threads that are inside Add on the set at address s.
InFlightOn(s) == {t \in Threads : pc[t] \notin {"idle", "lookup", "create"} /\ loc[t].s = s}

\* C6 as stated: under every interleaving of concurrent New[T] calls at
\* most one Registry is ever stored in the directory under T's key, and
\* every registration that returned is present in the Registry the
\* directory holds for its type.
C6_OneRegistryPerType ==
    /\ \A k \in DOMAIN stored : Cardinality(stored[k]) <= 1
    /\ \A d \in done :
          Returned(d) => /\ IsRegistered(d.T, d.name)
                         /\ entries[d.ret].set = RegistryAddr(d.T)

\* C7: on one Registry, the values that the atomic increments of nextID
\* hand to the calls are pairwise distinct, under every interleaving.
C7_DistinctReservations ==
    \A s \in DOMAIN reserved :
        \A i, j \in DOMAIN reserved[s] :
            i # j => reserved[s][i] # reserved[s][j]

\* C7 witness: two threads are inside Add on the same Registry and each
\* has its reserved value in hand.
C7_Witness ==
    \E s \in DOMAIN reserved :
        /\ \A t \in Threads : pc[t] \in {"mark", "put"} /\ loc[t].s = s
        /\ Len(reserved[s]) >= 2
        /\ \A t1, t2 \in Threads : t1 # t2 => loc[t1].id # loc[t2].id

\* C8 as stated: when New[T] calls race across the end of T's range, no
\* entry is ever created with an identifier outside 0..K-1, no two entries
\* of one Registry share an identifier, and once more than K identifiers
\* have been reserved on a Registry and its calls have ended, one of them
\* has raised the overflow panic.
C8_RaceRaisesOverflow ==
    /\ \A e \in DOMAIN entries : entries[e].id \in 0 .. (Capacity(entries[e].T) - 1)
    /\ \A e1, e2 \in DOMAIN entries :
          (e1 # e2 /\ entries[e1].set = entries[e2].set)
              => entries[e1].id # entries[e2].id
    /\ \A s \in DOMAIN sets :
          (sets[s].nextID > Capacity(sets[s].T) /\ InFlightOn(s) = {})
              => \E d \in done : d.T = sets[s].T /\ d.panic = PanicOverflow

(***************************************************************************)
(* Properties of handles (specification Spec).                             *)
(***************************************************************************)
\* The call completed without a panic and without an error.
Succeeded(c) == c.panic = NoPanic /\ c.err = NoError

\* The handle ptr is Valid and its Name() and ID() return, without a panic,
\* the name given and the ID of the entry T's Registry holds for that name.
BoundTo(ptr, T, name) ==
    /\ Valid(ptr)
    /\ IsRegistered(T, name)
    /\ Name(entries, ptr) = [val |-> name, panic |-> NoPanic]
    /\ ID(entries, ptr) = [val |-> entries[RegistryOf(T)[name]].id, panic |-> NoPanic]

\* C11: a zero-value Enum[T] reports Valid() false and Name() and ID() on
\* it panic with "enum not initialized"; a handle returned by New, returned
\* by a successful EnumByTypeAndName or populated by a successful
\* deserialization of a name reports Valid() true, and Name() and ID()
\* return its entry's name and ID.
C11_ValidityOfHandles ==
    /\ handle.ptr = NULL =>
          /\ ~Valid(handle.ptr)
          /\ Name(entries, handle.ptr).panic = PanicNotInitialized
          /\ ID(entries, handle.ptr).panic = PanicNotInitialized
    /\ (last.op = "New" /\ Returned(last)) => BoundTo(last.ret, last.T, last.arg)
    /\ (last.op = "EnumByTypeAndName" /\ Succeeded(last))
          => BoundTo(last.ret, last.T, last.arg)
    /\ (last.op \in Deserializers /\ LookedUp.some /\ Succeeded(last))
          => BoundTo(handle.ptr, handle.T, LookedUp.name)

\* C11 witness: a zero-value handle was populated by UnmarshalJSON and is
\* now bound to the entry with ID 1.
C11_Witness ==
    /\ last.op = "UnmarshalJSON" /\ Succeeded(last)
    /\ last.pre = NULL
    /\ Valid(handle.ptr)
    /\ ID(entries, handle.ptr).val = 1

\* C12: two handles of one host type are equal exactly when they are bound
\* to the same entry, that is to the same name and to the same ID, however
\* each was obtained: what EnumByTypeAndName, EnumsByType and a successful
\* deserialization hand out for a name is the handle New returned for it.
C12_EqualIffSameEntry ==
    /\ \A e1, e2 \in DOMAIN entries :
          entries[e1].T = entries[e2].T
              => /\ (e1 = e2) <=> (entries[e1].name = entries[e2].name)
                 /\ (e1 = e2) <=> (entries[e1].id = entries[e2].id)
    /\ (last.op = "New" /\ Returned(last))
          => (IsRegistered(last.T, last.arg) /\ last.ret = RegistryOf(last.T)[last.arg])
    /\ (last.op = "EnumByTypeAndName" /\ Succeeded(last))
          => (IsRegistered(last.T, last.arg) /\ last.ret = RegistryOf(last.T)[last.arg])
    /\ (last.op = "EnumsByType" /\ Returned(last))
          => \A i \in DOMAIN last.list : last.list[i] \in HandlesOf(last.T)
    /\ (last.op \in Deserializers /\ LookedUp.some /\ Succeeded(last))
          => /\ IsRegistered(handle.T, LookedUp.name)
             /\ handle.ptr = RegistryOf(handle.T)[LookedUp.name]

\* C12 witness: the handle a deserialization bound and the handle a lookup
\* returned are equal, in a Registry that holds another name as well.
C12_Witness ==
    /\ last.op = "EnumByTypeAndName" /\ Succeeded(last)
    /\ handle.T = last.T /\ handle.ptr = last.ret
    /\ Cardinality(DOMAIN RegistryOf(last.T)) >= 2

\* C13 as stated: a Bound handle never becomes Uninitialized: whatever a
\* deserialization is given and whatever it returns, the handle it was
\* called on is Bound afterwards if it was Bound before.
C13_BoundStaysBound ==
    [][(last'.op \in Deserializers /\ Valid(handle.ptr)) => Valid(handle'.ptr)]_vars

\* What does hold: a Bound handle stays Bound across every deserialization
\* that returns no error.
BoundStaysBoundOnSuccess ==
    [][(last'.op \in Deserializers /\ Valid(handle.ptr) /\ Succeeded(last'))
          => Valid(handle'.ptr)]_vars

\* C14: Scan(nil) returns no error and leaves the handle (Bound or
\* Uninitialized) and the registry unchanged.
C14_ScanNilIsNoOp ==
    [][(last'.op = "Scan" /\ last'.kind = "nil")
          => /\ Succeeded(last')
             /\ handle' = handle
             /\ UNCHANGED <<shared, newCount>>]_vars

\* C14 witness: Scan(nil) was called on a Bound handle, which is still
\* bound to the same entry.
C14_Witness ==
    /\ last.op = "Scan" /\ last.kind = "nil" /\ Succeeded(last)
    /\ Valid(last.pre)
    /\ handle.ptr = last.pre

(***************************************************************************)
(* Properties of lookups and errors (specification Spec).                  *)
(***************************************************************************)
\* The calls that look a name up in the directory.
NameLookups == Deserializers \cup {"EnumByTypeAndName"}

\* C15 as stated: a deserialization never panics; it returns an error when
\* the host type has no Registry, when the name is not in the Registry,
\* when the JSON payload is not a string and when the scanned value is
\* neither a string nor a byte slice.
C15_DeserializationNeverPanics ==
    last.op \in Deserializers =>
        /\ last.panic = NoPanic
        /\ (LookedUp.some /\ ~IsRegistered(last.T, LookedUp.name)) => last.err # NoError
        /\ (last.op = "UnmarshalJSON" /\ ~jsonUnmarshalString(last.arg).ok)
              => last.err = ErrNotAString
        /\ (last.op = "Scan" /\ last.kind \notin {"nil", "string", "bytes"})
              => last.err = ErrNotStringOrBytes

\* What does hold: the same, for a host type whose directory key is free
\* or holds its own Registry.
DeserializationNeverPanicsOwnKey ==
    (last.op \in Deserializers /\ KeyFreeOrOwn(last.T)) =>
        /\ last.panic = NoPanic
        /\ (LookedUp.some /\ ~HasRegistry(last.T)) => last.err = ErrNoSet
        /\ (LookedUp.some /\ HasRegistry(last.T) /\ ~IsRegistered(last.T, LookedUp.name))
              => last.err = ErrNameNotFound
        /\ (last.op = "UnmarshalJSON" /\ ~jsonUnmarshalString(last.arg).ok)
              => last.err = ErrNotAString
        /\ (last.op = "Scan" /\ last.kind \notin {"nil", "string", "bytes"})
              => last.err = ErrNotStringOrBytes

\* C16 as stated: getTypeName is injective on the host types in use: a
\* type that has a Registry shares its directory key with no other host
\* type, and no registration or lookup by name ever finds another type's
\* Registry under its key.
C16_InjectiveKeys ==
    /\ \A A, B \in HostTypes :
          (A # B /\ HasRegistry(A)) => getTypeName(A) # getTypeName(B)
    /\ last.op \in NameLookups \cup {"New"} => last.panic # PanicTypeAssertion

\* Two distinct host types have registered or looked up under one key.
KeyClash ==
    /\ last.op \in NameLookups \cup {"New"}
    /\ last.panic = PanicTypeAssertion
    /\ \E A \in HostTypes \ {last.T} :
          HasRegistry(A) /\ getTypeName(A) = getTypeName(last.T)

\* C17: after N >= 1 successful registrations for T, EnumsByType[T] returns
\* exactly N handles, one for each registered name of T, each the handle
\* New returned for that name, with no duplicates and none of another type.
C17_EnumsByTypeComplete ==
    (last.op = "EnumsByType" /\ newCount[last.T] >= 1) =>
        /\ Returned(last)
        /\ Len(last.list) = newCount[last.T]
        /\ {last.list[i] : i \in DOMAIN last.list} = HandlesOf(last.T)
        /\ \A i, j \in DOMAIN last.list : i # j => last.list[i] # last.list[j]
        /\ \A i \in DOMAIN last.list :
              /\ entries[last.list[i]].T = last.T
              /\ RegistryOf(last.T)[entries[last.list[i]].name] = last.list[i]

\* C17 witness: EnumsByType[Role] returned three handles after three
\* registrations.
C17_Witness ==
    /\ last.op = "EnumsByType" /\ last.T = "Role" /\ Returned(last)
    /\ newCount["Role"] = 3
    /\ Len(last.list) = 3

\* C18 as stated: EnumByTypeAndName[T](name) never panics; it returns, with
\* a nil error, the handle New[T](name) returned when name is registered
\* for T, and a non-nil error with a zero handle when name is not
\* registered for T or T has no Registry.
C18_LookupByName ==
    last.op = "EnumByTypeAndName" =>
        /\ last.panic = NoPanic
        /\ IF IsRegistered(last.T, last.arg)
           THEN last.err = NoError /\ last.ret = RegistryOf(last.T)[last.arg]
           ELSE last.err # NoError /\ last.ret = NULL

\* What does hold: the same, for a host type whose directory key is free
\* or holds its own Registry.
LookupByNameOwnKey ==
    (last.op = "EnumByTypeAndName" /\ KeyFreeOrOwn(last.T)) =>
        /\ last.panic = NoPanic
        /\ IF IsRegistered(last.T, last.arg)
           THEN last.err = NoError /\ last.ret = RegistryOf(last.T)[last.arg]
           ELSE last.err # NoError /\ last.ret = NULL

\* C19: New[T]("") panics with "enum name cannot be empty", returns no
\* handle, consumes no identifier and stores nothing.
C19_EmptyNameRejected ==
    [][(last'.op = "New" /\ last'.arg = EmptyName)
          => /\ last'.panic = PanicEmptyName
             /\ last'.ret = NULL
             /\ UNCHANGED <<shared, newCount>>]_vars

\* C19 witness: New[T]("") panicked for a type that has registrations.
C19_Witness ==
    /\ last.op = "New" /\ last.arg = EmptyName
    /\ last.panic = PanicEmptyName
    /\ newCount[last.T] >= 1
    /\ ~IsRegistered(last.T, EmptyName)

\* The decimal text of an identifier.
IDText(h) == <<ToString(entries[h].id)>>

\* C20: the serialized form of a Bound handle is its name and never its
\* ID: MarshalText and Value return the name, MarshalJSON returns a JSON
\* string (which decodes to the name when the name is valid UTF-8).
C20_SerializedFormIsName ==
    \A h \in DOMAIN entries :
        /\ MarshalText(entries, h) = [data |-> entries[h].name, err |-> NoError]
        /\ Value(entries, h) = [data |-> entries[h].name, err |-> NoError]
        /\ MarshalJSON(entries, h).err = NoError
        /\ jsonUnmarshalString(MarshalJSON(entries, h).data).ok
        /\ ValidUTF8(entries[h].name)
              => jsonUnmarshalString(MarshalJSON(entries, h).data).str = entries[h].name
        /\ IDText(h) \notin {MarshalText(entries, h).data, Value(entries, h).data,
                             MarshalJSON(entries, h).data}

\* C20 witness: the handle in hand is bound to the entry named "G", whose
\* ID is 1, and its text form is the name.
C20_Witness ==
    /\ Valid(handle.ptr)
    /\ entries[handle.ptr].id = 1
    /\ MarshalText(entries, handle.ptr).data = <<"G">>
    /\ MarshalJSON(entries, handle.ptr).data = <<"dq", "G", "dq">>

(***************************************************************************)
(* Properties of lookups concurrent with registration (SpecRace).          *)
(***************************************************************************)
\* C21 as stated: a lookup that runs while New calls run is safe: none of
\* its reads of the directory or of a Registry's entries map overlaps a
\* store into that map, the program is not stopped by the runtime, and the
\* lookup returns not-found or an entry that was fully built.
C21_LookupsRaceFree ==
    /\ ~reader.raced
    /\ reader.out # "fatal"
    /\ reader.out = "found" => reader.ret \in DOMAIN entries

\* A read of a Registry's entries map overlapped the store of Add and the
\* runtime stopped the program.
ReadOverlappedStore ==
    /\ reader.out = "fatal"
    /\ reader.s # NULL

(***************************************************************************)
(* The Registry invariant under concurrent registration (SpecConc).        *)
(***************************************************************************)
\* C22 as stated: of the New[T] calls that threads make with one name on
\* one Registry at most one returns, and once the calls on a Registry have
\* ended (its range not being used up) its entries carry the identifiers
\* 0..n-1 for n entries, n being the value of the counter: no identifier
\* was reserved and left without an entry.
C22_RegistryInvariant ==
    /\ \A d1, d2 \in done :
          (/\ Returned(d1) /\ Returned(d2)
           /\ d1.T = d2.T /\ d1.name = d2.name
           /\ entries[d1.ret].set = entries[d2.ret].set)
              => d1 = d2
    /\ \A s \in DOMAIN sets :
          (InFlightOn(s) = {} /\ sets[s].nextID <= Capacity(sets[s].T))
              => LET m == sets[s].nameEnumMap
                 IN  /\ {entries[m[n]].id : n \in DOMAIN m}
                            = 0 .. (Cardinality(DOMAIN m) - 1)
                     /\ Cardinality(DOMAIN m) = sets[s].nextID

\* Two New calls with one name on one Registry have both returned.
SameNameRegisteredTwice ==
    \E d1, d2 \in done :
        /\ d1 # d2
        /\ Returned(d1) /\ Returned(d2)
        /\ d1.T = d2.T /\ d1.name = d2.name
        /\ entries[d1.ret].set = entries[d2.ret].set

(***************************************************************************)
(* Properties of the Registry over time (specification Spec).              *)
(***************************************************************************)
\* C23: registered entries are immutable.  Across every call, every entry
\* keeps its name and its ID, and every registered name keeps its entry:
\* a later lookup of the name returns the same (name, id), also after a
\* handle bound to the entry was rebound to another name.
C23_EntriesImmutable ==
    [][\/ UNCHANGED shared
       \/ /\ \A e \in DOMAIN entries :
                e \in DOMAIN entries' /\ entries'[e] = entries[e]
          /\ \A T \in HostTypes : \A n \in DOMAIN RegistryOf(T) :
                /\ IsRegistered(T, n)'
                /\ RegistryOf(T)'[n] = RegistryOf(T)[n]
                /\ EnumByTypeAndName(setByTypeName, sets, T, n)'
                       = [ptr |-> RegistryOf(T)[n], err |-> NoError,
                          panic |-> NoPanic]]_vars

\* C23 witness: a handle bound to one entry was rebound by a deserialization
\* to another entry, and the first entry still has its name, registered
\* under that name.
C23_Witness ==
    /\ last.op \in Deserializers /\ Succeeded(last)
    /\ Valid(last.pre) /\ Valid(handle.ptr)
    /\ handle.ptr # last.pre
    /\ entries[last.pre].name # entries[handle.ptr].name
    /\ RegistryOf(handle.T)[entries[last.pre].name] = last.pre

\* C24 as stated: once T's range is exhausted it stays exhausted, every
\* later New[T] call, whatever its name, fails with the overflow panic, and
\* no New[T] call ever returns an ID that is already registered.
C24_Original ==
    [][\/ UNCHANGED shared /\ last'.op # "New"
       \/ \A T \in HostTypes :
          /\ IsExhausted(T) => IsExhausted(T)'
          /\ (IsExhausted(T) /\ last'.op = "New" /\ last'.T = T)
                => (last'.panic = PanicOverflow /\ last'.ret = NULL)
          /\ (last'.op = "New" /\ last'.T = T /\ Returned(last'))
                => entries'[last'.ret].id \notin RegisteredIDs(T)]_vars

\* C24 amended: once T's range is exhausted it stays exhausted; every later
\* New[T] call fails and stores nothing, with the overflow panic when the
\* name is not empty and with the empty-name panic when it is; no New[T]
\* call ever returns an ID that is already registered.
C24_ExhaustionIsPermanent ==
    [][\/ UNCHANGED shared /\ last'.op # "New"
       \/ \A T \in HostTypes :
          /\ IsExhausted(T) => IsExhausted(T)'
          /\ (IsExhausted(T) /\ last'.op = "New" /\ last'.T = T)
                => /\ last'.panic = IF last'.arg = EmptyName THEN PanicEmptyName
                                     ELSE PanicOverflow
                   /\ last'.ret = NULL
                   /\ UNCHANGED <<shared, newCount>>
          /\ (last'.op = "New" /\ last'.T = T /\ Returned(last'))
                => entries'[last'.ret].id \notin RegisteredIDs(T)]_vars

\* C24 witness: New was called with a new name for a type whose range was
\* exhausted, and panicked with the overflow message.
C24_Witness ==
    /\ last.op = "New" /\ last.panic = PanicOverflow
    /\ IsExhausted(last.T)
    /\ last.arg # EmptyName /\ ~IsRegistered(last.T, last.arg)
    /\ sets[RegistryAddr(last.T)].nextID = Capacity(last.T)

\* C25: a New[T] call that panics with the duplicate-name message leaves
\* T's counter and entries unchanged, and a New[T] call that returns gets
\* the ID equal to the number of entries registered before it, also when
\* the call before it failed on a duplicate.
C25_DuplicateLeavesNoGap ==
    [][/\ (last'.op = "New" /\ last'.panic = PanicDuplicate)
             => UNCHANGED <<shared, newCount>>
       /\ (last'.op = "New" /\ Returned(last'))
             => /\ entries'[last'.ret].id = Cardinality(DOMAIN RegistryOf(last'.T))
                /\ (sets[RegistryAddr(last.T)].nextID)'
                       = Cardinality(DOMAIN RegistryOf(last'.T)) + 1]_vars

\* C25 witness: the last New call failed on a duplicate name, and the
\* counter of its type equals the number of its entries.
C25_Witness ==
    /\ last.op = "New" /\ last.panic = PanicDuplicate
    /\ Cardinality(DOMAIN RegistryOf(last.T)) = 2
    /\ sets[RegistryAddr(last.T)].nextID = 2

(***************************************************************************)
(* Properties the code implies (specification Spec).                       *)
(***************************************************************************)
\* The handle h of type Enum[T], when Bound, references the entry that T's
\* Registry stores under the handle's own name, which is what a lookup of
\* that name returns.
StoredUnderOwnName(T, h) ==
    Valid(h) =>
        /\ h \in DOMAIN entries
        /\ IsRegistered(T, Name(entries, h).val)
        /\ RegistryOf(T)[Name(entries, h).val] = h
        /\ EnumByTypeAndName(setByTypeName, sets, T, Name(entries, h).val)
              = [ptr |-> h, err |-> NoError, panic |-> NoPanic]

\* C26: in every state reached by sequential registrations, lookups and
\* deserializations, every Bound handle of type T (the caller's handle, and
\* the handles the last call returned) references an entry stored in T's
\* Registry under the handle's own name.
C26_BoundHandleIsRegistered ==
    /\ StoredUnderOwnName(handle.T, handle.ptr)
    /\ last.op \in {"New", "EnumByTypeAndName"} => StoredUnderOwnName(last.T, last.ret)
    /\ last.op = "EnumsByType"
          => \A i \in DOMAIN last.list : StoredUnderOwnName(last.T, last.list[i])

\* C26 witness: the caller's handle is bound to the entry with ID 1, and a
\* later registration for its type has returned.
C26_Witness ==
    /\ Valid(handle.ptr)
    /\ ID(entries, handle.ptr).val = 1
    /\ last.op = "New" /\ Returned(last) /\ last.T = handle.T
    /\ last.ret # handle.ptr

\* C27: EnumByTypeAndName, UnmarshalJSON, UnmarshalText and Scan never
\* change the directory, a Registry's counter or a Registry's entries,
\* whether they succeed or fail; a lookup for a type without a Registry
\* does not create one.
C27_LookupsReadOnly ==
    [][last'.op \in NameLookups
          => /\ UNCHANGED <<setByTypeName, sets, entries, newCount>>
             /\ DOMAIN setByTypeName' = DOMAIN setByTypeName]_vars

\* C27 witness: a lookup for a type that has no Registry returned the
\* no-set error and the directory, which holds another type's Registry,
\* has no key for the type.
C27_Witness ==
    /\ last.op = "EnumByTypeAndName" /\ last.err = ErrNoSet
    /\ getTypeName(last.T) \notin DOMAIN setByTypeName
    /\ DOMAIN setByTypeName # {}

\* C28: MarshalJSON, MarshalText and Value on a zero-value Enum[T] return
\* the error "enum not initialized" and no payload, without a panic;
\* String(), Name() and ID() on it panic.
C28_SerializingZeroValue ==
    ~Valid(handle.ptr) =>
        /\ MarshalJSON(entries, handle.ptr) = [data |-> <<>>, err |-> ErrNotInitialized]
        /\ MarshalText(entries, handle.ptr) = [data |-> <<>>, err |-> ErrNotInitialized]
        /\ Value(entries, handle.ptr) = [data |-> <<>>, err |-> ErrNotInitialized]
        /\ String(entries, handle.ptr).panic = PanicNotInitialized
        /\ Name(entries, handle.ptr).panic = PanicNotInitialized
        /\ ID(entries, handle.ptr).panic = PanicNotInitialized

\* C28 witness: a zero-value handle was declared for a type that has
\* registrations, and its JSON form is the error.
C28_Witness ==
    /\ last.op = "Declare"
    /\ ~Valid(handle.ptr)
    /\ newCount[handle.T] >= 1
    /\ MarshalJSON(entries, handle.ptr).err = ErrNotInitialized

\* C29: EnumsByType[T] for a type T that has no Registry (no New[T] call
\* has stored one) panics on the lookup result, returns no collection and
\* does not create a Registry for T.
C29_EnumsByTypeWithoutRegistry ==
    [][(last'.op = "EnumsByType" /\ getTypeName(last'.T) \notin DOMAIN setByTypeName)
          => /\ last'.panic = PanicTypeAssertion
             /\ last'.list = <<>>
             /\ UNCHANGED <<shared, newCount>>
             /\ getTypeName(last'.T) \notin DOMAIN setByTypeName']_vars

\* C29 witness: EnumsByType panicked for a type with no Registry while
\* another type has one.
C29_Witness ==
    /\ last.op = "EnumsByType" /\ last.panic = PanicTypeAssertion
    /\ getTypeName(last.T) \notin DOMAIN setByTypeName
    /\ DOMAIN setByTypeName # {}

====
